---- MODULE Spec2Model ----
(***************************************************************************)
(* Model of the batch-ingestion project:                                   *)
(*   config/extraction_config.py  FileExtractionConfig and its variants    *)
(*   config/settings.py           DatabaseSettings (pool parameters)       *)
(*   database/connection.py       DatabaseConnection, the module-level     *)
(*                                singleton and its convenience functions  *)
(*   etl/load.py                  load_customers                           *)
(*   models/customer.py           the customers table and its constraints  *)
(*                                                                         *)
(* Five specifications share the definitions below:                       *)
(*   SpecCfg   construction of extraction configs over a small filesystem  *)
(*   Spec      the connection manager and the loader, one caller           *)
(*   SpecRace  first acquisition by several threads, statement by statement*)
(*   SpecFile  one file of five customer rows loaded chunk by chunk        *)
(*   SpecLife  the manager opened, closed and used again, one caller       *)
(***************************************************************************)
EXTENDS Integers, Sequences, FiniteSets, TLC

VARIABLES
    \* ---- filesystem and extraction configs (SpecCfg)
    exists,          \* the source paths that exist
    archiveDirs,     \* the directories that hold an "archive" subdirectory
    cfgResult,       \* the last construction: its arguments and its outcome
    \* ---- connection manager, sessions, store (Spec, SpecFile, SpecRace)
    settings,        \* settings.database: pool_size, max_overflow
    _db_connection,  \* the module global: None or the index of a DatabaseConnection
    conns,           \* the DatabaseConnection instances: each its _db_engine
    engines,         \* the engines created: each its pool
    sessions,        \* the sessions created: each its transaction
    store,           \* the committed rows of the customers table
    dbUp,            \* whether the database server answers (fixed per run)
    hist,            \* the last call and its outcome
    \* ---- one file loaded chunk by chunk (SpecFile)
    file,            \* the rows of the file, in source order
    chunkNo,         \* the number of chunks loaded so far
    chunkLog,        \* per chunk loaded: its outcome and the store after it
    \* ---- threads (SpecRace)
    pc,              \* each thread's position
    local,           \* each thread's local variables
    \* ---- lifecycle of the manager (SpecLife)
    disposed,        \* the engines dispose() was called on
    closed           \* the DatabaseConnection instances whose close() disposed an engine

cfgVars  == <<exists, archiveDirs, cfgResult>>
dbVars   == <<settings, _db_connection, conns, engines, sessions, store, dbUp, hist>>
fileVars == <<file, chunkNo, chunkLog>>
thrVars  == <<pc, local>>
lifeVars == <<disposed, closed>>
vars     == <<cfgVars, dbVars, fileVars, thrVars, lifeVars>>

\* Python's None, for an index (indices start at 1).
None == 0

(***************************************************************************)
(* config/extraction_config.py                                             *)
(***************************************************************************)

\* Bound: the explicit chunk sizes tried are -1 .. MaxChunkSize.
MaxChunkSize == 1

\* chunk_size: int = 1000
DefaultChunkSize == 1000

\* The source paths of the model, in two directories.
Paths == {"data/customers.csv", "inbox/sales.parquet"}

\* Path.parent
Parent(p) == IF p = "inbox/sales.parquet" THEN "inbox" ELSE "data"

Dirs == {Parent(p) : p \in Paths}

FileTypes == {"csv", "parquet", "json"}

ChunkSizes == (-1 .. MaxChunkSize) \cup {DefaultChunkSize}

\* file_patterns as passed: None, or a list given by the caller.
PatternArgs == {<<>>, <<"customers*.csv">>}

\* The arguments of a construction. A field left out takes the dataclass
\* default: chunk_size 1000, archive_processed_data True,
\* archive_data_directory True, file_patterns None (modelled as <<>>).
CfgArgs ==
    [ source_path : Paths,
      file_type : FileTypes,
      chunk_size : ChunkSizes,
      archive_processed_data : BOOLEAN,
      archive_data_directory : BOOLEAN,
      file_patterns : PatternArgs ]

\* The three validations of __post_init__, in the order of the code: the
\* name of the exception raised, or "ok".
\* Faulty variant: chunk_size 0 is let through.
ValidateLax(a, ex) ==
    IF a.source_path \notin ex THEN "FileNotFoundError"
    ELSE IF a.file_type \notin {"csv", "parquet"} THEN "ValueError"
    ELSE IF a.chunk_size < 0 THEN "ValueError"
    ELSE "ok"

Validate(a, ex) ==
    IF a.source_path \notin ex THEN "FileNotFoundError"
    ELSE IF a.file_type \notin {"csv", "parquet"} THEN "ValueError"
    ELSE IF a.chunk_size <= 0 THEN "ValueError"
    ELSE "ok"

\* FileExtractionConfig.__post_init__: the outcome, the fields after it and
\* the archive directories after it.
PostInit(a, ex, ad) ==
    LET v == Validate(a, ex) IN
    IF v # "ok" THEN [status |-> v, cfg |-> a, archiveDirs |-> ad]
    ELSE IF a.archive_processed_data /\ ~a.archive_data_directory
         THEN [status |-> "ok",
               cfg |-> [a EXCEPT !.archive_data_directory = TRUE],
               archiveDirs |-> ad \cup {Parent(a.source_path)}]
         ELSE [status |-> "ok", cfg |-> a, archiveDirs |-> ad]

\* CSVDataExtractorConfig.__post_init__ / ParquetDataExtractorConfig.__post_init__:
\* the base validation, then the default glob pattern.
PostInitVariant(a, ex, ad, pattern) ==
    LET r == PostInit(a, ex, ad) IN
    IF r.status = "ok" /\ r.cfg.file_patterns = <<>>
    THEN [r EXCEPT !.cfg.file_patterns = <<pattern>>]
    ELSE r

NoCfg ==
    [ variant |-> "none", status |-> "none",
      args |-> [ source_path |-> "data/customers.csv", file_type |-> "csv",
                 chunk_size |-> DefaultChunkSize, archive_processed_data |-> TRUE,
                 archive_data_directory |-> TRUE, file_patterns |-> <<>> ],
      cfg |-> [ source_path |-> "data/customers.csv", file_type |-> "csv",
                chunk_size |-> DefaultChunkSize, archive_processed_data |-> TRUE,
                archive_data_directory |-> TRUE, file_patterns |-> <<>> ],
      archiveBefore |-> {} ]

Construct(variant, a, r) ==
    /\ cfgResult' = [ variant |-> variant, status |-> r.status, args |-> a,
                      cfg |-> r.cfg, archiveBefore |-> archiveDirs ]
    /\ archiveDirs' = r.archiveDirs
    /\ UNCHANGED <<exists, dbVars, fileVars, thrVars, lifeVars>>

\* FileExtractionConfig(...)
ConstructBase ==
    \E a \in CfgArgs : Construct("base", a, PostInit(a, exists, archiveDirs))

\* CSVDataExtractorConfig(...)
ConstructCSV ==
    \E a \in CfgArgs :
        Construct("csv", a, PostInitVariant(a, exists, archiveDirs, "*.csv"))

\* ParquetDataExtractorConfig(...)
ConstructParquet ==
    \E a \in CfgArgs :
        Construct("parquet", a, PostInitVariant(a, exists, archiveDirs, "*.parquet"))

(***************************************************************************)
(* config/settings.py: the pool parameters handed to create_engine         *)
(***************************************************************************)

\* Bounds: pool_size ranges over 1 .. MaxPoolSize (the field's ge=1),
\* max_overflow over 0 .. MaxOverflow (the field's ge=0).
MaxPoolSize == 1
MaxOverflow == 1

\* DatabaseSettings: the fields get_engine_config passes to the pool.
DatabaseSettings == [pool_size : 1 .. MaxPoolSize, max_overflow : 0 .. MaxOverflow]

\* The most connections one engine's pool opens.
PoolLimit == settings.pool_size + settings.max_overflow

(***************************************************************************)
(* models/customer.py: the customers table                                 *)
(***************************************************************************)

\* Bounds: at most MaxRows rows per chunk or per session_scope block, at
\* most MaxSessions sessions open at once, at most MaxEngines engines
\* created per run.
MaxRows == 2
MaxSessions == 2
MaxEngines == 2

\* The (customer_id, email) pairs of the model: the second repeats the
\* first's customer_id, the third the first's email.
Keys ==
    { [customer_id |-> "c1", email |-> "a@x.org"],
      [customer_id |-> "c1", email |-> "b@x.org"],
      [customer_id |-> "c2", email |-> "a@x.org"] }

\* A column left unset by the constructor is inserted as NULL.
NULL == "NULL"

\* The sales.sale_id values that exist (the target of customers.sale_id).
SaleIds == {"s1"}

\* A Customer instance: the constrained columns of the table.
Customer(cid, email, first, last, sale) ==
    [customer_id |-> cid, email |-> email, first_name |-> first,
     last_name |-> last, sale_id |-> sale]

\* Rows a caller that fills every required column can add.
CompleteRows ==
    {Customer(k.customer_id, k.email, "n", "n", "s1") : k \in Keys}

\* A row whose sale_id names no sale.
OrphanRow == Customer("c1", "a@x.org", "n", "n", "s0")

\* The constraint an INSERT of row r violates, given the rows the
\* transaction sees (committed and inserted earlier in it), or "ok":
\* NOT NULL on the non-Optional str columns, UNIQUE on customer_id and on
\* email, FOREIGN KEY on sale_id.
InsertViolation(r, visible) ==
    IF NULL \in {r.sale_id, r.first_name, r.last_name}
    THEN "NotNullViolation"
    ELSE IF \E x \in visible : x.customer_id = r.customer_id \/ x.email = r.email
    THEN "UniqueViolation"
    ELSE IF r.sale_id \notin SaleIds THEN "ForeignKeyViolation"
    ELSE "ok"

(***************************************************************************)
(* database/connection.py                                                  *)
(*                                                                         *)
(* The operators below take and return a world w: the module global g, the *)
(* DatabaseConnection instances, the engines with their pools, the         *)
(* sessions and the committed store.                                       *)
(***************************************************************************)

IsOpen(ss) == ss.state = "open"

\* The world a call starts from. A session an earlier call closed has gone
\* out of scope with that call; the list keeps the open sessions and, until
\* the next call, the session the last call closed.
World ==
    [g |-> _db_connection, conns |-> conns, engines |-> engines,
     sessions |-> SelectSeq(sessions, IsOpen), store |-> store]

\* DatabaseConnection.__init__: a new instance, its engine not yet created.
\* Returns the world; the instance is the last of w.conns.
NewConnection(w) ==
    [w EXCEPT !.conns = Append(@, [_db_engine |-> None])]

\* get_database_connection: the global instance, created when there is none.
GetDatabaseConnection(w) ==
    IF w.g = None
    THEN LET w1 == NewConnection(w) IN [w1 EXCEPT !.g = Len(w1.conns)]
    ELSE w

\* DatabaseConnection.engine: the instance's engine, created on first use.
\* create_engine opens no connection; the pool starts empty.
EngineProperty(w, c) ==
    IF w.conns[c]._db_engine = None
    THEN LET e == Len(w.engines) + 1 IN
         [w EXCEPT !.engines = Append(@, [out |-> 0, idle |-> 0]),
                   !.conns[c]._db_engine = e]
    ELSE w

\* DatabaseConnection.get_session: Session(self.engine). The session holds
\* no connection until its first statement. The session is the last of
\* w.sessions. Beside the session's own state the record keeps what the
\* properties are stated over: the rows added through it, the store when it
\* was created, the commits its block made itself, what its block raised and
\* how its scope was left ("none": not yet).
GetSession(w, c, scoped) ==
    LET w1 == EngineProperty(w, c) IN
    [w1 EXCEPT !.sessions =
        Append(@, [engine |-> w1.conns[c]._db_engine, state |-> "open",
                   hasConn |-> FALSE, pending |-> <<>>, flushed |-> {},
                   commitCalls |-> 0, rollbackCalls |-> 0, scoped |-> scoped,
                   added |-> <<>>, storeAtEnter |-> w1.store, blockCommits |-> 0,
                   raised |-> "none", exit |-> "none"])]

\* The pool's checkout for session s (QueuePool, configured by
\* get_engine_config): an idle connection is reused, a new one is opened
\* while the engine has fewer than pool_size + max_overflow, and otherwise
\* the caller blocks for pool_timeout and TimeoutError is raised. A
\* connection cannot be used while the server is down.
Checkout(w, s) ==
    LET ss == w.sessions[s]
        e  == w.engines[ss.engine]
    IN  IF ss.hasConn THEN [w |-> w, err |-> "ok"]
        ELSE IF ~dbUp THEN [w |-> w, err |-> "OperationalError"]
        ELSE IF e.idle > 0
        THEN [w |-> [w EXCEPT !.engines[ss.engine] =
                                   [out |-> e.out + 1, idle |-> e.idle - 1],
                               !.sessions[s].hasConn = TRUE],
              err |-> "ok"]
        ELSE IF e.out < PoolLimit
        THEN [w |-> [w EXCEPT !.engines[ss.engine].out = e.out + 1,
                               !.sessions[s].hasConn = TRUE],
              err |-> "ok"]
        ELSE [w |-> w, err |-> "TimeoutError"]

\* The session's connection goes back to its pool: kept idle while the
\* pool holds fewer than pool_size idle connections, closed otherwise.
Release(w, s) ==
    LET ss == w.sessions[s]
        e  == w.engines[ss.engine]
    IN  IF ~ss.hasConn THEN w
        ELSE [w EXCEPT !.engines[ss.engine] =
                           [out |-> e.out - 1,
                            idle |-> IF e.idle < settings.pool_size
                                     THEN e.idle + 1 ELSE e.idle],
                       !.sessions[s].hasConn = FALSE]

\* The INSERTs of a flush, in the order the rows were added: each row is
\* checked against the committed rows and the rows inserted before it in
\* this transaction; the first violation ends the flush.
RECURSIVE InsertAll(_, _, _)
InsertAll(rows, committed, flushed) ==
    IF rows = <<>> THEN [flushed |-> flushed, err |-> "ok"]
    ELSE LET v == InsertViolation(Head(rows), committed \cup flushed) IN
         IF v # "ok" THEN [flushed |-> flushed, err |-> v]
         ELSE InsertAll(Tail(rows), committed, flushed \cup {Head(rows)})

\* Session.flush: nothing to do without pending rows; otherwise a
\* connection is checked out and the pending rows are inserted.
Flush(w, s) ==
    IF w.sessions[s].pending = <<>> THEN [w |-> w, err |-> "ok"]
    ELSE LET co == Checkout(w, s) IN
         IF co.err # "ok" THEN co
         ELSE LET ins == InsertAll(co.w.sessions[s].pending, co.w.store,
                                   co.w.sessions[s].flushed)
              IN  [w |-> [co.w EXCEPT !.sessions[s].pending = <<>>,
                                      !.sessions[s].flushed = ins.flushed],
                   err |-> ins.err]

\* Session.commit: flush, then make the inserted rows durable and give the
\* connection back. A failed flush raises and commits nothing.
Commit(w, s) ==
    LET w1 == [w EXCEPT !.sessions[s].commitCalls = @ + 1]
        f  == Flush(w1, s)
    IN  IF f.err # "ok" THEN f
        ELSE [w |-> Release([f.w EXCEPT !.store = @ \cup f.w.sessions[s].flushed,
                                        !.sessions[s].flushed = {}], s),
              err |-> "ok"]

\* Session.rollback: pending and inserted rows are discarded, the
\* connection goes back to the pool.
Rollback(w, s) ==
    Release([w EXCEPT !.sessions[s].pending = <<>>,
                      !.sessions[s].flushed = {},
                      !.sessions[s].rollbackCalls = @ + 1], s)

\* Session.close: whatever is uncommitted is discarded, the connection
\* goes back to the pool.
Close(w, s) ==
    Release([w EXCEPT !.sessions[s].pending = <<>>,
                      !.sessions[s].flushed = {},
                      !.sessions[s].state = "closed"], s)

\* The exceptions `except Exception` catches. KeyboardInterrupt derives
\* from BaseException and passes the clause by.
IsException(err) == err \notin {"ok", "KeyboardInterrupt"}

\* What a `with session_scope()` block can raise by itself.
BlockRaises == {"KeyError", "KeyboardInterrupt"}

\* session.add(row) inside the block.
BlockAdd(w, s, row) ==
    [w EXCEPT !.sessions[s].pending = Append(@, row),
              !.sessions[s].added = Append(@, row)]

\* session.commit() called by the block itself.
BlockCommit(w, s) ==
    Commit([w EXCEPT !.sessions[s].blockCommits = @ + 1], s)

\* session_scope after the yield, entered with what the block raised
\* ("ok": it ended normally): commit when the block ended normally;
\* rollback and re-raise on an Exception (the block's or the commit's);
\* close in every case.
\* Faulty variant: the except clause keeps what was inserted instead of
\* rolling it back.
ScopeExitKeepOnError(w, s, err) ==
    LET c  == IF err = "ok" THEN Commit(w, s) ELSE [w |-> w, err |-> err]
        w2 == IF IsException(c.err)
              THEN [c.w EXCEPT !.store = @ \cup c.w.sessions[s].flushed,
                               !.sessions[s].rollbackCalls = @ + 1]
              ELSE c.w
    IN  [w |-> [Close(w2, s) EXCEPT !.sessions[s].raised = err,
                                    !.sessions[s].exit = c.err],
         err |-> c.err]

\* Faulty variant: no finally clause.
ScopeExitNoClose(w, s, err) ==
    LET c  == IF err = "ok" THEN Commit(w, s) ELSE [w |-> w, err |-> err]
        w2 == IF IsException(c.err) THEN Rollback(c.w, s) ELSE c.w
    IN  [w |-> [w2 EXCEPT !.sessions[s].raised = err, !.sessions[s].exit = c.err],
         err |-> c.err]

ScopeExit(w, s, err) ==
    LET c  == IF err = "ok" THEN Commit(w, s) ELSE [w |-> w, err |-> err]
        w2 == IF IsException(c.err) THEN Rollback(c.w, s) ELSE c.w
    IN  [w |-> [Close(w2, s) EXCEPT !.sessions[s].raised = err,
                                    !.sessions[s].exit = c.err],
         err |-> c.err]

(***************************************************************************)
(* etl/load.py                                                             *)
(***************************************************************************)

\* A chunk: a DataFrame. columnsOk: the columns load_customers subscripts
\* (customer_id, name, email, address) are all present.
DataRows == Keys

Chunks ==
    [rows : UNION {[1 .. n -> DataRows] : n \in 0 .. MaxRows}, columnsOk : BOOLEAN]

\* Customer(customer_id=..., name=..., email=..., phone_number=...,
\* address=..., signup_date=..., is_active=...): customer_id and email are
\* columns of the table; name and signup_date are not and are dropped;
\* sale_id, first_name and last_name are never given.
MapRow(row) == Customer(row.customer_id, row.email, NULL, NULL, NULL)

\* The for loop of load_customers: one Customer added per row.
RECURSIVE AddRows(_, _, _)
AddRows(w, s, rows) ==
    IF rows = <<>> THEN w
    ELSE AddRows(BlockAdd(w, s, MapRow(Head(rows))), s, Tail(rows))

\* load_customers: a DatabaseConnection of its own, a session_scope on it,
\* the rows added, the block's own session.commit(), the scope's exit.
\* With a column missing the first row's subscript raises KeyError before
\* anything is added. Returns the world, the exception that leaves the
\* call ("ok": none) and the session used.
LoadCustomers(w, chunk) ==
    LET w1 == NewConnection(w)
        w2 == GetSession(w1, Len(w1.conns), TRUE)
        s  == Len(w2.sessions)
        x  == IF ~chunk.columnsOk /\ chunk.rows # <<>>
              THEN ScopeExit(w2, s, "KeyError")
              ELSE LET bc == BlockCommit(AddRows(w2, s, chunk.rows), s)
                   IN  ScopeExit(bc.w, s, bc.err)
    IN  [w |-> x.w, err |-> x.err, sid |-> s]

\* DatabaseConnection.test_connection: raises ValueError while the engine
\* has not been created; otherwise borrows a connection from the pool for
\* SELECT 1 and gives it back: True, or False when the connection cannot
\* be had (server down, pool exhausted).
TestConnection(w, c) ==
    LET e == w.conns[c]._db_engine IN
    IF e = None THEN [w |-> w, res |-> "ValueError"]
    ELSE IF ~dbUp THEN [w |-> w, res |-> "False"]
    ELSE IF w.engines[e].idle > 0 THEN [w |-> w, res |-> "True"]
    ELSE IF w.engines[e].out < PoolLimit
    THEN [w |-> [w EXCEPT !.engines[e].idle = 1], res |-> "True"]
    ELSE [w |-> w, res |-> "False"]

\* init_database: the global instance; RuntimeError when the test answers
\* False; create_tables on request; the instance is returned ("ok").
\* create_tables raises ValueError without an engine, which cannot happen
\* after a test that answered True.
InitDatabase(w, create_tables) ==
    LET w1 == GetDatabaseConnection(w)
        t  == TestConnection(w1, w1.g)
    IN  IF t.res = "ValueError" THEN [w |-> t.w, res |-> "ValueError"]
        ELSE IF t.res = "False" THEN [w |-> t.w, res |-> "RuntimeError"]
        ELSE [w |-> t.w, res |-> "ok"]

(***************************************************************************)
(* Spec: one caller using the connection manager and the loader            *)
(***************************************************************************)

NoChunk == [rows |-> <<>>, columnsOk |-> TRUE]

\* hist: the last call of load_customers, test_connection or init_database,
\* the last statement on a held session or the last session_scope left: how it ended (err), the session it
\* used (None: none) and the state it started from; for a load_customers
\* that repeats the call before it with the same chunk, that first
\* attempt's outcome (first, firstStore: the store it started from).
\* Any other call leaves NoCall.
NoCall ==
    [op |-> "none", chunk |-> NoChunk, err |-> "ok", sid |-> None,
     storeBefore |-> {}, engineReady |-> FALSE,
     first |-> "none", firstStore |-> {}]

\* Whether the global instance exists and has created its engine.
EngineReady == _db_connection # None /\ conns[_db_connection]._db_engine # None

Call(op, chunk, err, sid) ==
    [op |-> op, chunk |-> chunk, err |-> err, sid |-> sid,
     storeBefore |-> IF op = "load_customers" THEN store ELSE {},
     engineReady |-> EngineReady,
     first |-> IF op = "load_customers" /\ hist.op = op /\ hist.chunk = chunk
               THEN hist.err ELSE "none",
     firstStore |-> IF op = "load_customers" /\ hist.op = op /\ hist.chunk = chunk
                    THEN hist.storeBefore ELSE {}]

Log(rec) == hist' = rec

SetWorld(w) ==
    /\ _db_connection' = w.g
    /\ conns' = w.conns
    /\ engines' = w.engines
    /\ sessions' = w.sessions
    /\ store' = w.store

Others == <<cfgVars, fileVars, thrVars, lifeVars>>

\* The block the caller is in: the innermost session_scope not yet left.
InBlock(w, s) ==
    /\ w.sessions[s].scoped /\ w.sessions[s].exit = "none"
    /\ \A t \in (s + 1) .. Len(w.sessions) :
          w.sessions[t].scoped => w.sessions[t].exit # "none"

\* The caller is in no session_scope block.
TopLevel(w) ==
    \A s \in 1 .. Len(w.sessions) :
        w.sessions[s].scoped => w.sessions[s].exit # "none"

\* The actions bind each intermediate world with \E over a singleton, so
\* that it is computed once.

\* get_database_connection()
CallGetDatabaseConnection ==
    /\ \E w \in {GetDatabaseConnection(World)} : SetWorld(w)
    /\ Log(NoCall)
    /\ UNCHANGED <<settings, dbUp, Others>>

\* get_session(): a session the caller keeps and closes itself.
CallGetSession ==
    /\ \E w \in {World} :
        /\ Len(w.sessions) < MaxSessions
        /\ \E w1 \in {GetDatabaseConnection(w)} :
           \E w2 \in {GetSession(w1, w1.g, FALSE)} : SetWorld(w2)
    /\ Log(NoCall)
    /\ UNCHANGED <<settings, dbUp, Others>>

\* The caller runs a statement on a session it holds: the session's first
\* statement checks a connection out of the pool.
SessionExecute ==
    /\ \E w \in {World} : \E s \in 1 .. Len(w.sessions) :
        /\ ~w.sessions[s].scoped
        /\ \E co \in {Checkout(w, s)} :
            /\ SetWorld(co.w)
            /\ Log(Call("execute", NoChunk, co.err, s))
    /\ UNCHANGED <<settings, dbUp, Others>>

\* The caller closes a session it holds.
SessionClose ==
    /\ \E w \in {World} : \E s \in 1 .. Len(w.sessions) :
        /\ ~w.sessions[s].scoped
        /\ \E w1 \in {Close(w, s)} : SetWorld(w1)
    /\ Log(NoCall)
    /\ UNCHANGED <<settings, dbUp, Others>>

\* `with session_scope() as session:` up to the yield. The caller nests no
\* block in another.
ScopeEnter ==
    /\ \E w \in {World} :
        /\ TopLevel(w)
        /\ Len(w.sessions) < MaxSessions
        /\ \E w1 \in {GetDatabaseConnection(w)} :
           \E w2 \in {GetSession(w1, w1.g, TRUE)} : SetWorld(w2)
    /\ Log(NoCall)
    /\ UNCHANGED <<settings, dbUp, Others>>

\* session.add(row) in the block.
ScopeAdd ==
    /\ \E w \in {World} : \E s \in 1 .. Len(w.sessions) :
        /\ InBlock(w, s)
        /\ Len(w.sessions[s].added) < MaxRows
        /\ \E row \in CompleteRows \cup {OrphanRow} :
           \E w1 \in {BlockAdd(w, s, row)} : SetWorld(w1)
    /\ Log(NoCall)
    /\ UNCHANGED <<settings, dbUp, Others>>

\* session.commit() in the block; a commit that raises leaves the block
\* and the scope at once.
ScopeCommit ==
    /\ \E w \in {World} : \E s \in 1 .. Len(w.sessions) :
        /\ InBlock(w, s)
        /\ w.sessions[s].blockCommits = 0
        /\ \E bc \in {BlockCommit(w, s)} :
           IF bc.err = "ok"
           THEN SetWorld(bc.w) /\ Log(NoCall)
           ELSE \E x \in {ScopeExit(bc.w, s, bc.err)} :
                SetWorld(x.w) /\ Log(Call("session_scope", NoChunk, x.err, s))
    /\ UNCHANGED <<settings, dbUp, Others>>

\* The block ends, normally or by raising: the scope after the yield.
ScopeLeave ==
    /\ \E w \in {World} : \E s \in 1 .. Len(w.sessions) :
        /\ InBlock(w, s)
        /\ \E raises \in {"ok"} \cup BlockRaises :
           \E x \in {ScopeExit(w, s, raises)} :
            /\ SetWorld(x.w)
            /\ Log(Call("session_scope", NoChunk, x.err, s))
    /\ UNCHANGED <<settings, dbUp, Others>>

\* load_customers(chunk), called outside any session_scope block.
CallLoadCustomers ==
    /\ Len(engines) < MaxEngines
    /\ \E w \in {World} :
        /\ TopLevel(w)
        /\ Len(w.sessions) < MaxSessions
        /\ \E chunk \in Chunks : \E r \in {LoadCustomers(w, chunk)} :
            /\ SetWorld(r.w)
            /\ Log(Call("load_customers", chunk, r.err, r.sid))
    /\ UNCHANGED <<settings, dbUp, Others>>

\* get_database_connection().test_connection()
CallTestConnection ==
    /\ \E w1 \in {GetDatabaseConnection(World)} :
       \E t \in {TestConnection(w1, w1.g)} :
        /\ SetWorld(t.w)
        /\ Log(Call("test_connection", NoChunk, t.res, None))
    /\ UNCHANGED <<settings, dbUp, Others>>

\* init_database(create_tables)
CallInitDatabase ==
    /\ \E create_tables \in BOOLEAN : \E r \in {InitDatabase(World, create_tables)} :
        /\ SetWorld(r.w)
        /\ Log(Call("init_database", NoChunk, r.res, None))
    /\ UNCHANGED <<settings, dbUp, Others>>

\* Values of the variables a specification does not use.
CfgIdle == exists = {} /\ archiveDirs = {} /\ cfgResult = NoCfg
FileIdle == file = <<>> /\ chunkNo = 0 /\ chunkLog = <<>>
ThreadsIdle == pc = <<>> /\ local = <<>>
LifeIdle == disposed = {} /\ closed = {}
DbFresh ==
    /\ _db_connection = None /\ conns = <<>> /\ engines = <<>>
    /\ sessions = <<>> /\ store = {} /\ hist = NoCall

\* The database server answers throughout the run, or not at all.
Init ==
    /\ settings \in DatabaseSettings
    /\ dbUp \in BOOLEAN
    /\ DbFresh /\ CfgIdle /\ FileIdle /\ ThreadsIdle /\ LifeIdle

Next ==
    \/ CallGetDatabaseConnection
    \/ CallGetSession
    \/ SessionExecute
    \/ SessionClose
    \/ ScopeEnter
    \/ ScopeAdd
    \/ ScopeCommit
    \/ ScopeLeave
    \/ CallLoadCustomers
    \/ CallTestConnection
    \/ CallInitDatabase

Spec == Init /\ [][Next]_vars

(***************************************************************************)
(* SpecCfg: extraction configs built over every small filesystem           *)
(***************************************************************************)

InitCfg ==
    /\ exists \in SUBSET Paths
    /\ archiveDirs \in SUBSET Dirs
    /\ cfgResult = NoCfg
    /\ settings = [pool_size |-> 1, max_overflow |-> 0]
    /\ dbUp = TRUE
    /\ DbFresh /\ FileIdle /\ ThreadsIdle /\ LifeIdle

NextCfg == ConstructBase \/ ConstructCSV \/ ConstructParquet

SpecCfg == InitCfg /\ [][NextCfg]_vars

(***************************************************************************)
(* SpecFile: a file of FileRows customer rows, one email repeated, loaded  *)
(* in source order in chunks of ChunkRows rows, one load_customers call    *)
(* per chunk                                                               *)
(***************************************************************************)

\* Bounds of the scenario: the rows of the file and the rows per chunk.
FileRows == 5
ChunkRows == 2

\* The file in which row dup repeats the email of the earlier row twin;
\* every customer_id is different.
FileWith(dup, twin) ==
    [i \in 1 .. FileRows |->
        [customer_id |-> i, email |-> IF i = dup THEN twin ELSE i]]

\* Every position of the repeating row and of the row it repeats.
Positions == {p \in (1 .. FileRows) \X (1 .. FileRows) : p[2] < p[1]}

Files == {FileWith(p[1], p[2]) : p \in Positions}

NChunks(f) == (Len(f) + ChunkRows - 1) \div ChunkRows

\* The k-th chunk of the file: rows (k-1)*ChunkRows + 1 .. k*ChunkRows, as
\* far as the file goes.
ChunkOf(f, k) ==
    LET lo == (k - 1) * ChunkRows + 1
        hi == IF k * ChunkRows < Len(f) THEN k * ChunkRows ELSE Len(f)
    IN  [rows |-> SubSeq(f, lo, hi), columnsOk |-> TRUE]

\* load_customers on the next chunk of the file.
LoadNextChunk ==
    /\ chunkNo < NChunks(file)
    /\ \E r \in {LoadCustomers(World, ChunkOf(file, chunkNo + 1))} :
        /\ SetWorld(r.w)
        /\ chunkLog' = Append(chunkLog, [err |-> r.err, stored |-> r.w.store])
    /\ chunkNo' = chunkNo + 1
    /\ UNCHANGED <<settings, dbUp, hist, file, cfgVars, thrVars, lifeVars>>

InitFile ==
    /\ settings \in DatabaseSettings
    /\ dbUp \in BOOLEAN
    /\ file \in Files
    /\ chunkNo = 0 /\ chunkLog = <<>>
    /\ DbFresh /\ CfgIdle /\ ThreadsIdle /\ LifeIdle

NextFile == LoadNextChunk

SpecFile == InitFile /\ [][NextFile]_vars

(***************************************************************************)
(* SpecRace: NThreads threads make their first acquisition,                *)
(* get_database_connection().engine, one statement at a time               *)
(***************************************************************************)

\* Bound: the threads.
NThreads == 2

Threads == 1 .. NThreads

NoLocal == [conn |-> None, engine |-> None]

\* get_database_connection: `if _db_connection is None`
GdcCheck(t) ==
    /\ pc[t] = "gdc_check"
    /\ pc' = [pc EXCEPT ![t] = IF _db_connection = None
                               THEN "gdc_create" ELSE "gdc_return"]
    /\ UNCHANGED <<dbVars, local, cfgVars, fileVars, lifeVars>>

\* `_db_connection = DatabaseConnection(...)`
GdcCreate(t) ==
    /\ pc[t] = "gdc_create"
    /\ conns' = Append(conns, [_db_engine |-> None])
    /\ _db_connection' = Len(conns) + 1
    /\ pc' = [pc EXCEPT ![t] = "gdc_return"]
    /\ UNCHANGED <<settings, engines, sessions, store, dbUp, hist, local,
                   cfgVars, fileVars, lifeVars>>

\* `return _db_connection`
GdcReturn(t) ==
    /\ pc[t] = "gdc_return"
    /\ local' = [local EXCEPT ![t].conn = _db_connection]
    /\ pc' = [pc EXCEPT ![t] = "engine_check"]
    /\ UNCHANGED <<dbVars, cfgVars, fileVars, lifeVars>>

\* engine: `if self._db_engine is None`
EngineCheck(t) ==
    /\ pc[t] = "engine_check"
    /\ pc' = [pc EXCEPT ![t] = IF conns[local[t].conn]._db_engine = None
                               THEN "engine_create" ELSE "engine_return"]
    /\ UNCHANGED <<dbVars, local, cfgVars, fileVars, lifeVars>>

\* `self._db_engine = create_engine(...)`
EngineCreate(t) ==
    /\ pc[t] = "engine_create"
    /\ engines' = Append(engines, [out |-> 0, idle |-> 0])
    /\ conns' = [conns EXCEPT ![local[t].conn]._db_engine = Len(engines) + 1]
    /\ pc' = [pc EXCEPT ![t] = "engine_return"]
    /\ UNCHANGED <<settings, _db_connection, sessions, store, dbUp, hist, local,
                   cfgVars, fileVars, lifeVars>>

\* `return self._db_engine`
EngineReturn(t) ==
    /\ pc[t] = "engine_return"
    /\ local' = [local EXCEPT ![t].engine = conns[local[t].conn]._db_engine]
    /\ pc' = [pc EXCEPT ![t] = "done"]
    /\ UNCHANGED <<dbVars, cfgVars, fileVars, lifeVars>>

InitRace ==
    /\ settings \in DatabaseSettings
    /\ dbUp = TRUE
    /\ pc = [t \in Threads |-> "gdc_check"]
    /\ local = [t \in Threads |-> NoLocal]
    /\ DbFresh /\ CfgIdle /\ FileIdle /\ LifeIdle

NextRace ==
    \E t \in Threads :
        \/ GdcCheck(t)
        \/ GdcCreate(t)
        \/ GdcReturn(t)
        \/ EngineCheck(t)
        \/ EngineCreate(t)
        \/ EngineReturn(t)

SpecRace == InitRace /\ [][NextRace]_vars

(***************************************************************************)
(* SpecLife: one caller opens the manager, closes it and uses it again     *)
(***************************************************************************)

\* DatabaseConnection.close: with an engine, dispose() it (the pool's idle
\* connections are closed; connections checked out stay with their
\* sessions) and forget it; without one, nothing. Returns the world and the
\* engine disposed, None when there was none.
DatabaseConnectionClose(w, c) ==
    LET e == w.conns[c]._db_engine IN
    IF e = None THEN [w |-> w, engine |-> None]
    ELSE [w |-> [w EXCEPT !.engines[e].idle = 0, !.conns[c]._db_engine = None],
          engine |-> e]

\* close_database_connection: with a global instance, close it and forget
\* it; without one, nothing.
CloseDatabaseConnection(w) ==
    IF w.g = None THEN [w |-> w, engine |-> None]
    ELSE LET r == DatabaseConnectionClose(w, w.g) IN
         [w |-> [r.w EXCEPT !.g = None], engine |-> r.engine]

\* What a close did, as the call's outcome.
CloseOutcome(r) == IF r.engine = None THEN "noop" ELSE "disposed"

\* The engines and instances a run creates are capped by capping the
\* closes: a new engine or instance only follows a close.
MayClose == Len(engines) < MaxEngines /\ Len(conns) < MaxEngines

\* get_database_connection().close()
CallClose ==
    /\ MayClose
    /\ \E w1 \in {GetDatabaseConnection(World)} :
       \E r \in {DatabaseConnectionClose(w1, w1.g)} :
        /\ SetWorld(r.w)
        /\ Log(Call("close", NoChunk, CloseOutcome(r), None))
        /\ disposed' = IF r.engine = None THEN disposed ELSE disposed \cup {r.engine}
        /\ closed' = IF r.engine = None THEN closed ELSE closed \cup {w1.g}
    /\ UNCHANGED <<settings, dbUp, cfgVars, fileVars, thrVars>>

\* close_database_connection()
CallCloseDatabaseConnection ==
    /\ MayClose
    /\ \E w \in {World} : \E r \in {CloseDatabaseConnection(w)} :
        /\ SetWorld(r.w)
        /\ Log(Call("close_database_connection", NoChunk, CloseOutcome(r), None))
        /\ disposed' = IF r.engine = None THEN disposed ELSE disposed \cup {r.engine}
        /\ closed' = IF r.engine = None THEN closed ELSE closed \cup {w.g}
    /\ UNCHANGED <<settings, dbUp, cfgVars, fileVars, thrVars>>

InitLife ==
    /\ settings \in DatabaseSettings
    /\ dbUp \in BOOLEAN
    /\ DbFresh /\ CfgIdle /\ FileIdle /\ ThreadsIdle /\ LifeIdle

NextLife ==
    \/ CallGetDatabaseConnection
    \/ CallGetSession
    \/ SessionExecute
    \/ SessionClose
    \/ CallTestConnection
    \/ CallInitDatabase
    \/ CallClose
    \/ CallCloseDatabaseConnection

SpecLife == InitLife /\ [][NextLife]_vars

(***************************************************************************)
(* Properties                                                              *)
(***************************************************************************)

Range(q) == {q[i] : i \in 1 .. Len(q)}

\* The constraint violations of an INSERT (the spec's LoadError).
Violations == {"NotNullViolation", "UniqueViolation", "ForeignKeyViolation"}

\* The session the last call left, when that call was a session_scope or a
\* load_customers.
ScopeLeft == hist.op \in {"session_scope", "load_customers"}

\* C1: every session_scope (the caller's block, or the one inside
\* load_customers) that is left has its session closed, with no connection
\* and nothing pending; left normally, the scope committed once after the
\* block's own commits, rolled nothing back and every added row is stored;
\* left by an exception, that exception is the block's own when the block
\* raised, reaches the caller, and the session was rolled back (once, for
\* what `except Exception` catches); no scoped session stays open once its
\* scope is left.
C1_ScopeCommitsOrRollsBackThenCloses ==
    /\ \A s \in 1 .. Len(sessions) :
          sessions[s].scoped /\ sessions[s].exit # "none"
              => sessions[s].state = "closed" /\ ~sessions[s].hasConn
    /\ ScopeLeft =>
        LET ss == sessions[hist.sid] IN
        /\ ss.scoped /\ ss.state = "closed" /\ ~ss.hasConn
        /\ ss.pending = <<>> /\ ss.flushed = {}
        /\ ss.exit = hist.err
        /\ ss.raised # "ok" => ss.exit = ss.raised
        /\ ss.exit = "ok" =>
              /\ ss.raised = "ok"
              /\ ss.commitCalls = ss.blockCommits + 1
              /\ ss.rollbackCalls = 0
              /\ Range(ss.added) \subseteq store
        /\ ss.exit # "ok" =>
              /\ ss.rollbackCalls = IF IsException(ss.exit) THEN 1 ELSE 0
              /\ ss.commitCalls =
                    ss.blockCommits + (IF ss.raised = "ok" THEN 1 ELSE 0)
              /\ ss.blockCommits = 0 => store = ss.storeAtEnter

\* C1 witness: a block that added two rows ended normally, the scope's
\* commit raised UniqueViolation, and the session was rolled back and closed.
C1_Witness ==
    /\ hist.op = "session_scope" /\ hist.err = "UniqueViolation"
    /\ sessions[hist.sid].raised = "ok"
    /\ Len(sessions[hist.sid].added) = 2
    /\ sessions[hist.sid].rollbackCalls = 1
    /\ sessions[hist.sid].state = "closed"

\* C2: a chunk (load_customers), and any transaction run through
\* session_scope, is stored whole or not at all: when the call fails the
\* store is what it was before it (for a block: when the failing commit is
\* the session's first); when it succeeds the store is what it was plus
\* every row added.
C2_ChunkAllOrNothing ==
    ScopeLeft =>
        LET ss == sessions[hist.sid] IN
        /\ hist.err = "ok" => store = ss.storeAtEnter \cup Range(ss.added)
        /\ hist.op = "load_customers" /\ hist.err # "ok" =>
              /\ store = hist.storeBefore
              /\ Cardinality(store) = Cardinality(hist.storeBefore)
        /\ hist.err \in Violations /\ ss.commitCalls = 1 => store = ss.storeAtEnter

\* C2 witness: a chunk of two rows failed on a constraint over a store that
\* already held a row, and the store is unchanged.
C2_Witness ==
    /\ hist.op = "load_customers" /\ hist.err \in Violations
    /\ Len(hist.chunk.rows) = 2
    /\ hist.storeBefore # {}
    /\ store = hist.storeBefore

\* A chunk load_customers can map whose keys are new to the store S: every
\* column present, at least one row, no customer_id or email twice in the
\* chunk or already in S.
FreshChunk(chunk, S) ==
    /\ chunk.columnsOk /\ chunk.rows # <<>>
    /\ \A i, j \in 1 .. Len(chunk.rows) :
          i # j => /\ chunk.rows[i].customer_id # chunk.rows[j].customer_id
                   /\ chunk.rows[i].email # chunk.rows[j].email
    /\ \A i \in 1 .. Len(chunk.rows) : \A x \in S :
          /\ x.customer_id # chunk.rows[i].customer_id
          /\ x.email # chunk.rows[i].email

\* C3: a fresh chunk loaded twice with the server up: the first attempt
\* commits its rows, the second fails on uniqueness, and the store after
\* the second is the store after the first.
C3_ReloadFailsOnUniqueness ==
    ( /\ hist.op = "load_customers" /\ hist.first # "none"
      /\ dbUp /\ FreshChunk(hist.chunk, hist.firstStore) )
    => /\ hist.first = "ok"
       /\ Cardinality(hist.storeBefore) =
              Cardinality(hist.firstStore) + Len(hist.chunk.rows)
       /\ hist.err = "UniqueViolation"
       /\ store = hist.storeBefore

\* C4: no engine exists while no session has been asked for, and at most
\* one engine is ever created in the process (no close is modelled here).
C4_SingleLazyEngine ==
    /\ sessions = <<>> /\ hist.op = "none" => engines = <<>>
    /\ Len(engines) <= 1

\* The connections the process holds open: checked out or idle in a pool.
RECURSIVE LiveUpTo(_)
LiveUpTo(n) ==
    IF n = 0 THEN 0 ELSE engines[n].out + engines[n].idle + LiveUpTo(n - 1)

LiveConnections == LiveUpTo(Len(engines))

\* The sessions that hold a connection.
Holders == {s \in 1 .. Len(sessions) : sessions[s].hasConn}

\* C5: the process never holds more than pool_size + max_overflow
\* connections open, never more than that many sessions hold one, and a
\* statement that got its connection did not find that many held.
C5_ConnectionsBounded ==
    /\ LiveConnections <= PoolLimit
    /\ Cardinality(Holders) <= PoolLimit
    /\ hist.op = "execute" /\ hist.err = "TimeoutError" => Cardinality(Holders) = PoolLimit

\* C6: a construction succeeds exactly when source_path exists, file_type
\* is csv or parquet and chunk_size > 0; otherwise it fails with the
\* config error (FileNotFoundError or ValueError) and the filesystem is
\* what it was; a constructed config has chunk_size > 0 and an existing
\* source_path.
ConfigError == {"FileNotFoundError", "ValueError"}

ValidArgs(a) ==
    /\ a.source_path \in exists
    /\ a.file_type \in {"csv", "parquet"}
    /\ a.chunk_size > 0

C6_ConfigValidatedBeforeSideEffects ==
    cfgResult.variant # "none" =>
        /\ cfgResult.status = "ok" <=> ValidArgs(cfgResult.args)
        /\ cfgResult.status # "ok" =>
              /\ cfgResult.status \in ConfigError
              /\ archiveDirs = cfgResult.archiveBefore
        /\ cfgResult.status = "ok" =>
              /\ cfgResult.cfg.chunk_size > 0
              /\ cfgResult.cfg.source_path \in exists

\* C6 witness: a construction with chunk_size 0 that asked for the archive
\* directory to be made, where none existed: it failed and none exists.
C6_Witness ==
    /\ cfgResult.status = "ValueError"
    /\ cfgResult.args.chunk_size = 0
    /\ cfgResult.args.archive_processed_data
    /\ ~cfgResult.args.archive_data_directory
    /\ Parent(cfgResult.args.source_path) \notin archiveDirs

\* C7: after a successful construction with archive_processed_data true the
\* archive directory exists.
C7_ArchiveDirectoryExists ==
    cfgResult.status = "ok" /\ cfgResult.cfg.archive_processed_data
        => Parent(cfgResult.cfg.source_path) \in archiveDirs

\* C8: test_connection answers True or False in every state of the
\* manager and never raises; init_database on a fresh process with the
\* server up returns the instance.
C8_TestConnectionAnswers ==
    /\ hist.op = "test_connection" => hist.err \in {"True", "False"}
    /\ hist.op = "init_database" /\ dbUp /\ ~hist.engineReady => hist.err = "ok"

\* C9: whatever the interleaving of the threads' first acquisitions, one
\* DatabaseConnection and one engine are created, and the threads that
\* have their engine have the same one.
C9_OneEngineForAllThreads ==
    /\ Len(conns) <= 1
    /\ Len(engines) <= 1
    /\ \A t, u \in Threads :
          pc[t] = "done" /\ pc[u] = "done" => local[t].engine = local[u].engine

\* The chunk (1-based) that holds the row repeating an earlier email.
DupChunk(f) ==
    CHOOSE k \in 1 .. NChunks(f) :
        \E i \in 1 .. Len(ChunkOf(f, k).rows) :
            LET r == ChunkOf(f, k).rows[i] IN r.email # r.customer_id

\* C10: with the server up, once the three chunks of the file are loaded,
\* the chunk holding the repeating row failed on uniqueness, the other two
\* committed, and four rows are stored.
C10_FourRowsStored ==
    chunkNo = NChunks(file) /\ dbUp =>
        /\ \A k \in 1 .. NChunks(file) :
              chunkLog[k].err = IF k = DupChunk(file) THEN "UniqueViolation" ELSE "ok"
        /\ Cardinality(store) = FileRows - 1

\* The engines some DatabaseConnection instance holds.
HeldEngines ==
    {conns[c]._db_engine : c \in 1 .. Len(conns)} \ {None}

\* C11: the pool only moves forward, uninitialized, active, disposed: an
\* engine is disposed exactly when no manager holds it any more; a close
\* does nothing exactly when the global manager had no engine; a manager
\* whose close disposed its engine holds no engine afterwards, whatever is
\* called on it; and once an engine was disposed the process has no engine.
C11_PoolLifecycleForward ==
    /\ \A e \in 1 .. Len(engines) : e \in disposed <=> e \notin HeldEngines
    /\ hist.op \in {"close", "close_database_connection"}
          => (hist.err = "noop" <=> ~hist.engineReady)
    /\ \A c \in closed : conns[c]._db_engine = None
    /\ disposed # {} => HeldEngines = {}

====
